---- MODULE Spec2Model ----
(***************************************************************************)
(* MadHatter, the plugin runtime registry of the Cheshire Cat              *)
(* (core/cat/mad_hatter/mad_hatter.py): the plugin directories on disk,    *)
(* the registry built by find_plugins (self.plugins, self.hooks,           *)
(* self.tools), the embedding attribute of the tool objects, and the       *)
(* "procedural" collection of the vector store that embed_tools keeps in   *)
(* step with the tools.                                                    *)
(***************************************************************************)
EXTENDS Integers, Sequences, FiniteSets, TLC

VARIABLES
    dirs,        \* basenames of the directories present under cat/plugins/
    plugins,     \* self.plugins: sequence of metadata records
    hooks,       \* self.hooks: sequence of hook records, as sort_hooks left them
    tools,       \* self.tools: sequence of tool objects (by identity)
    embedding,   \* the .embedding of each tool object of self.tools (None or a vector)
    store,       \* the records of the "procedural" collection
    settings,    \* plugin id -> the file cat/plugins/<id>/settings.json
    descriptor,  \* a plugin folder and the plugin.json in it, as read on its own
    threads,     \* the callers inside install_plugin / uninstall_plugin: position and locals
    last         \* the last call: operation, argument, outcome, store calls made

vars == <<dirs, plugins, hooks, tools, embedding, store, settings, descriptor, threads,
          last>>

(***************************************************************************)
(* Bounds of the model.                                                    *)
(***************************************************************************)
\* Points the collection holds at the same time.
MaxPoints == 4
\* Directories present under cat/plugins/ at the same time.
MaxInstalled == 2

None == "None"

(***************************************************************************)
(* The plugin packages that can be on disk.  A package unpacks to one      *)
(* directory under cat/plugins/; the built-in plugin lives in              *)
(* cat/mad_hatter/core_plugin/.                                            *)
(***************************************************************************)
CoreDir == "core_plugin"

\* foo, bar: one source file and one tool each, the two tools sharing a
\* description.  baz: two source files exporting the same tool object.
\* empty: no source file.  broken: its module raises on import.
UserDirs == {"foo", "bar", "baz", "empty", "broken"}

\* core_folder and the pattern "cat/plugins/*/" of find_plugins, as paths.
FolderOf(d) ==
    IF d = CoreDir THEN <<"cat", "mad_hatter", "core_plugin">>
    ELSE <<"cat", "plugins", d>>

\* glob(folder/**/*.py): the source files of a directory, in glob's order.
PyFiles(d) ==
    CASE d = "core_plugin" -> <<"core_plugin/core.py">>
      [] d = "foo"         -> <<"foo/search.py">>
      [] d = "bar"         -> <<"bar/lookup.py">>
      [] d = "baz"         -> <<"baz/a.py", "baz/b.py">>
      [] d = "empty"       -> <<>>
      [] d = "broken"      -> <<"broken/oops.py">>

\* importlib.import_module(plugin_name) raises for this file.
ImportFails(f) == f = "broken/oops.py"

\* getmembers(plugin_module, is_cat_tool): the CatTool objects a module
\* exposes, sorted by attribute name.  baz/b.py imports the tool of baz/a.py.
ModuleTools(f) ==
    CASE f = "core_plugin/core.py" -> <<"get_the_time">>
      [] f = "foo/search.py"       -> <<"search_web">>
      [] f = "bar/lookup.py"       -> <<"lookup_web">>
      [] f = "baz/a.py"            -> <<"roll_dice">>
      [] f = "baz/b.py"            -> <<"roll_dice">>
      [] OTHER                     -> <<>>

ToolObjects == {"get_the_time", "search_web", "lookup_web", "roll_dice"}

\* tool.description: the text that is embedded and matched.
Description(t) ==
    CASE t = "get_the_time" -> "what time is it"
      [] t = "search_web"   -> "search the web"
      [] t = "lookup_web"   -> "search the web"
      [] t = "roll_dice"    -> "roll a dice"

\* The hooks a module declares with @hook (name, priority, function), in
\* declaration order.
ModuleHooks(f) ==
    CASE f = "core_plugin/core.py" ->
            << [hook_name |-> "agent_prompt_prefix", priority |-> 0,
                hook_function |-> "core.agent_prompt_prefix"],
               [hook_name |-> "before_cat_sends_message", priority |-> 0,
                hook_function |-> "core.before_cat_sends_message"] >>
      [] f = "foo/search.py" ->
            << [hook_name |-> "agent_prompt_prefix", priority |-> 1,
                hook_function |-> "foo.agent_prompt_prefix"] >>
      [] f = "bar/lookup.py" ->
            << [hook_name |-> "agent_prompt_prefix", priority |-> 2,
                hook_function |-> "bar.agent_prompt_prefix"],
               [hook_name |-> "before_cat_sends_message", priority |-> 0,
                hook_function |-> "bar.before_cat_sends_message"],
               [hook_name |-> "bar_custom_hook", priority |-> 1,
                hook_function |-> "bar.bar_custom_hook"] >>
      [] f = "baz/a.py" ->
            << [hook_name |-> "agent_prompt_prefix", priority |-> 1,
                hook_function |-> "baz.agent_prompt_prefix"] >>
      [] OTHER -> <<>>

(***************************************************************************)
(* Helpers on sequences and sets.                                          *)
(***************************************************************************)
Range(s) == {s[i] : i \in DOMAIN s}

\* The glob still listing cat/plugins/bar/ after the directory is gone.
GlobPlugins_stale(ds) ==
    LET Present(d) == d \in ds \cup {"bar"}
    IN  SelectSeq(<<"bar", "baz", "broken", "empty", "foo">>, Present)

\* glob.glob("cat/plugins/*/"): the directories present, in the order the
\* file system lists them, which is taken to be the alphabetical one.
GlobPlugins(ds) ==
    LET Present(d) == d \in ds
    IN  SelectSeq(<<"bar", "baz", "broken", "empty", "foo">>, Present)

RECURSIVE Flatten(_)
Flatten(ss) == IF ss = <<>> THEN <<>> ELSE Head(ss) \o Flatten(Tail(ss))

(***************************************************************************)
(* JSON files.  A file is absent, holds text json.load rejects, or holds   *)
(* a JSON value; a JSON object is a function from the keys the model       *)
(* knows to their values, Missing marking a key the object does not hold.  *)
(***************************************************************************)
Missing == "<missing>"

FileKinds == {"absent", "garbage", "object", "array", "number", "string", "null"}

\* The fields get_plugin_metadata reads, and "id", which a descriptor may
\* hold as well.
MetaFields == {"name", "description", "author_name", "author_url",
               "plugin_url", "tags", "thumb", "version"}
DescriptorKeys == MetaFields \cup {"id"}

\* What a descriptor holds under each key when it holds the key.
DescriptorValue(k) ==
    CASE k = "id"          -> "id from plugin.json"
      [] k = "name"        -> "name from plugin.json"
      [] k = "description" -> "description from plugin.json"
      [] k = "author_name" -> "author_name from plugin.json"
      [] k = "author_url"  -> "author_url from plugin.json"
      [] k = "plugin_url"  -> "plugin_url from plugin.json"
      [] k = "tags"        -> "tags from plugin.json"
      [] k = "thumb"       -> "thumb from plugin.json"
      [] k = "version"     -> "version from plugin.json"

\* The JSON object holding exactly the keys K.
DescriptorObject(K) ==
    [k \in DescriptorKeys |-> IF k \in K THEN DescriptorValue(k) ELSE Missing]

NoDescriptorObject == DescriptorObject({})

DescriptorFile(kind, K) == [kind |-> kind, doc |-> DescriptorObject(K)]

\* plugin.json of each directory.
DescriptorOf(d) ==
    CASE d = "bar"     -> DescriptorFile("object", {"id", "name", "version"})
      [] d = "baz"     -> DescriptorFile("garbage", {})
      [] OTHER         -> DescriptorFile("absent", {})

\* os.path.basename(os.path.normpath(folder)): the last path component.
Basename(folder) == folder[Len(folder)]

\* cat.utils.to_camel_case on the directory names of the model.
to_camel_case(id) ==
    CASE id = "core_plugin" -> "CorePlugin"
      [] id = "foo"         -> "Foo"
      [] id = "bar"         -> "Bar"
      [] id = "baz"         -> "Baz"
      [] id = "empty"       -> "Empty"
      [] id = "broken"      -> "Broken"

\* The defaults of get_plugin_metadata.
MetaDefault(k, plugin_id) ==
    CASE k = "name"        -> to_camel_case(plugin_id)
      [] k = "description" -> "Description not found for this plugin. Please create a plugin.json in the plugin folder."
      [] k = "author_name" -> "Unknown author"
      [] k = "author_url"  -> ""
      [] k = "plugin_url"  -> ""
      [] k = "tags"        -> "unknown"
      [] k = "thumb"       -> ""
      [] k = "version"     -> "0.0.1"

\* json_file_data after the try block: the parsed value when the file is
\* there and parses, {} otherwise.
JsonFileData(file) ==
    IF file.kind \in {"absent", "garbage"}
    THEN [kind |-> "object", doc |-> NoDescriptorObject]
    ELSE file

\* json_file_data.get(k, default) on a dict.
DictGet(doc, k, default) == IF doc[k] = Missing THEN default ELSE doc[k]

\* get_plugin_metadata: the metadata record, or AttributeError when the
\* parsed value has no .get (it is not a dict).
get_plugin_metadata(folder, file) ==
    LET plugin_id == Basename(folder)
        data      == JsonFileData(file)
    IN  IF data.kind # "object"
        THEN [raised |-> TRUE, meta |-> [id |-> plugin_id]]
        ELSE [raised |-> FALSE,
              meta |-> [k \in MetaFields \cup {"id"} |->
                          IF k = "id" THEN plugin_id
                          ELSE DictGet(data.doc, k, MetaDefault(k, plugin_id))]]

(***************************************************************************)
(* Scanning.                                                               *)
(***************************************************************************)
\* find_plugin: plugin_info (None without source files) and the tools of
\* the modules; imported lists the modules import_module loaded, which is
\* when their @hook decorators run; raised when a module fails to import or
\* get_plugin_metadata raises.
find_plugin(d) ==
    LET py_files == PyFiles(d)
        info     == get_plugin_metadata(FolderOf(d), DescriptorOf(d))
    IN  IF Len(py_files) = 0
        THEN [raised |-> FALSE, has_info |-> FALSE, plugin_info |-> None,
              plugin_tools |-> <<>>, imported |-> <<>>]
        ELSE [raised |-> info.raised \/ \E i \in DOMAIN py_files : ImportFails(py_files[i]),
              has_info |-> TRUE, plugin_info |-> info.meta,
              plugin_tools |-> Flatten([i \in DOMAIN py_files |-> ModuleTools(py_files[i])]),
              imported |-> py_files]

\* The hooks CatHooks holds when find_plugins asks for them: the hook
\* collection is rebuilt in full by every scan, so they are the hooks the
\* modules loaded by this scan declare, in loading order.
RegisteredHooks(imported) ==
    Flatten([i \in DOMAIN imported |-> ModuleHooks(imported[i])])

\* CatHooks.sort_hooks: the hooks by priority, highest first; the sort is
\* stable, so hooks of equal priority keep the order they were declared in.
RECURSIVE InsertHook(_, _)
InsertHook(h, sorted) ==
    IF sorted = <<>> THEN <<h>>
    ELSE IF Head(sorted).priority > h.priority
         THEN <<Head(sorted)>> \o InsertHook(h, Tail(sorted))
         ELSE <<h>> \o sorted

RECURSIVE sort_hooks(_)
sort_hooks(raw) ==
    IF raw = <<>> THEN <<>>
    ELSE InsertHook(Head(raw), sort_hooks(Tail(raw)))

\* all_plugins: the plugin_info of the folders that have one, in scan order.
RECURSIVE InfosOf(_)
InfosOf(found) ==
    IF found = <<>> THEN <<>>
    ELSE (IF Head(found).has_info THEN <<Head(found).plugin_info>> ELSE <<>>)
         \o InfosOf(Tail(found))

\* CatTool.augment_tool(ccat) on every tool of the scan: binds the host
\* context and leaves the tool without an embedding, to be given one by
\* embed_tools.
augment_tools(all_tools) == [t \in Range(all_tools) |-> None]

\* find_plugins over the built-in folder followed by the directories ds
\* under cat/plugins/: the new registry, or raised (and then nothing is
\* assigned).
find_plugins_body(ds) ==
    LET plugin_folders == <<CoreDir>> \o GlobPlugins(ds)
        found          == [i \in DOMAIN plugin_folders |-> find_plugin(plugin_folders[i])]
        all_tools      == Flatten([i \in DOMAIN found |-> found[i].plugin_tools])
        imported       == Flatten([i \in DOMAIN found |-> found[i].imported])
    IN  [raised    |-> \E i \in DOMAIN found : found[i].raised,
         plugins   |-> InfosOf(found),
         hooks     |-> sort_hooks(RegisteredHooks(imported)),
         tools     |-> all_tools,
         embedding |-> augment_tools(all_tools)]

\* plugin_exists with the comparison of the ids left out.
plugin_exists_any(plugin_id) == Len(plugins) > 0

\* plugin_exists: some plugin of self.plugins has that id.
plugin_exists(plugin_id) ==
    Cardinality({i \in DOMAIN plugins : plugins[i].id = plugin_id}) > 0

(***************************************************************************)
(* The vector store and embed_tools.                                       *)
(***************************************************************************)
\* The embedder: the vector of a text.
Vector(text) ==
    CASE text = "what time is it" -> "vector(what time is it)"
      [] text = "search the web"  -> "vector(search the web)"
      [] text = "roll a dice"     -> "vector(roll a dice)"
      [] text = "forgotten tool"  -> "vector(forgotten tool)"

\* A point of the collection, as add_texts stores it.
Point(id, text, name) ==
    [id |-> id, vector |-> Vector(text),
     payload |-> [page_content |-> text, source |-> "tool", name |-> name]]

\* plugins_tools_index = {t.description: t for t in self.tools}: a later
\* tool replaces an earlier one of the same description.
IndexHas(ts, text) == \E i \in DOMAIN ts : Description(ts[i]) = text
IndexGet(ts, text) ==
    LET at == {i \in DOMAIN ts : Description(ts[i]) = text}
    IN  ts[CHOOSE i \in at : \A j \in at : j <= i]

\* points_to_be_deleted with the stale records never collected.
points_to_be_deleted_none(ts, points) == {}

\* The loop over the stored records: a record whose text is a key of the
\* index gives its vector to the indexed tool; the others are to be deleted.
points_to_be_deleted(ts, points) ==
    {r.id : r \in {q \in points : ~IndexHas(ts, q.payload.page_content)}}

AssignStored(ts, emb, points) ==
    [t \in DOMAIN emb |->
        IF \E r \in points : /\ IndexHas(ts, r.payload.page_content)
                             /\ IndexGet(ts, r.payload.page_content) = t
        THEN (CHOOSE r \in points : /\ IndexHas(ts, r.payload.page_content)
                                     /\ IndexGet(ts, r.payload.page_content) = t).vector
        ELSE emb[t]]

\* The loop over self.tools from position i on: a tool without an embedding
\* is added to the store and takes the vector of the point just stored.
\* The id add_texts gives a new point: one no point of the collection has.
\* (The store's ids are never reused; MadHatter keeps no id between calls,
\* so the smallest free one stands for a fresh one.)
FreshId(points) ==
    CHOOSE i \in 1..(Cardinality(points) + 1) :
        /\ i \notin {r.id : r \in points}
        /\ \A j \in 1..(i - 1) : j \in {r.id : r \in points}

RECURSIVE EmbedMissing(_, _, _)
EmbedMissing(ts, i, st) ==
    IF i > Len(ts) THEN st
    ELSE LET tool == ts[i]
         IN  IF st.embedding[tool] = None
             THEN EmbedMissing(ts, i + 1,
                    [embedding |-> [st.embedding EXCEPT ![tool] = Vector(Description(tool))],
                     store     |-> st.store \cup {Point(FreshId(st.store), Description(tool), tool)},
                     added     |-> Append(st.added, Description(tool))])
             ELSE EmbedMissing(ts, i + 1, st)

\* embed_tools on the tools ts: the embeddings, the store and the calls made
\* on the store (the texts of the points whose ids were passed to delete,
\* the texts passed to add_texts).
embed_tools_body(ts, emb, points) ==
    LET doomed == points_to_be_deleted(ts, points)
        kept   == {r \in points : r.id \notin doomed}
        done   == EmbedMissing(ts, 1,
                    [embedding |-> AssignStored(ts, emb, points),
                     store |-> kept, added |-> <<>>])
    IN  [embedding |-> done.embedding, store |-> done.store,
         added |-> done.added,
         deleted |-> {r.payload.page_content : r \in {q \in points : q.id \in doomed}},
         delete_calls |-> IF Cardinality(doomed) > 0 THEN 1 ELSE 0]

\* The loop over self.tools of a pass in which the k-th call of add_texts
\* (call = "add_texts": nothing is stored) or the retrieve that follows it
\* (call = "retrieve": the point is stored, the tool gets no vector) raises.
RECURSIVE EmbedMissingUntil(_, _, _, _, _)
EmbedMissingUntil(ts, i, st, call, k) ==
    IF i > Len(ts) THEN st
    ELSE LET tool == ts[i]
         IN  IF st.embedding[tool] = None
             THEN IF st.calls + 1 = k
                  THEN [st EXCEPT !.raised = TRUE,
                                  !.store = IF call = "retrieve"
                                            THEN @ \cup {Point(FreshId(@), Description(tool), tool)}
                                            ELSE @]
                  ELSE EmbedMissingUntil(ts, i + 1,
                         [embedding |-> [st.embedding EXCEPT ![tool] = Vector(Description(tool))],
                          store     |-> st.store \cup {Point(FreshId(st.store), Description(tool), tool)},
                          calls     |-> st.calls + 1,
                          raised    |-> FALSE], call, k)
             ELSE EmbedMissingUntil(ts, i + 1, st, call, k)

\* The calls embed_tools makes on the vector store.
StoreCalls == {"get_all_points", "delete", "add_texts", "retrieve"}

\* embed_tools in which the given call on the vector store raises (for
\* add_texts and retrieve, the k-th one): what the tools and the collection
\* are left with, and whether the pass reaches that call at all.  A call
\* that raises has no effect on the collection.
embed_tools_raising(ts, emb, points, call, k) ==
    LET doomed == points_to_be_deleted(ts, points)
        kept   == {r \in points : r.id \notin doomed}
        until  == EmbedMissingUntil(ts, 1,
                    [embedding |-> AssignStored(ts, emb, points),
                     store |-> kept, calls |-> 0, raised |-> FALSE], call, k)
    IN  CASE call = "get_all_points" ->
                [raised |-> TRUE, embedding |-> emb, store |-> points]
          [] call = "delete" ->
                [raised |-> doomed # {}, embedding |-> AssignStored(ts, emb, points),
                 store |-> points]
          [] OTHER ->
                [raised |-> until.raised, embedding |-> until.embedding,
                 store |-> until.store]

(***************************************************************************)
(* Hook handlers.                                                          *)
(***************************************************************************)
HookNames == {"agent_prompt_prefix", "before_cat_sends_message", "bar_custom_hook",
              "nonexistent_hook"}

\* The positional arguments a caller passes.
HookArgs == {<<>>, <<"message">>}

\* What each handler returns; one of them returns None.
HandlerReturn(f) ==
    CASE f = "core.agent_prompt_prefix"      -> "core prefix"
      [] f = "core.before_cat_sends_message" -> None
      [] f = "foo.agent_prompt_prefix"       -> "foo prefix"
      [] f = "bar.agent_prompt_prefix"       -> "bar prefix"
      [] f = "bar.before_cat_sends_message"  -> "bar message"
      [] f = "bar.bar_custom_hook"           -> "bar custom"
      [] f = "baz.agent_prompt_prefix"       -> "baz prefix"

\* execute_hook returning None, as a default, when no entry has the name.
execute_hook_body_default(hs, hook_name, args) ==
    LET at == {i \in DOMAIN hs : hs[i].hook_name = hook_name}
    IN  IF at = {}
        THEN [outcome |-> "returned", value |-> None, invoked |-> <<>>]
        ELSE LET h == hs[CHOOSE i \in at : \A j \in at : i <= j]
             IN  [outcome |-> "returned", value |-> HandlerReturn(h.hook_function),
                  invoked |-> << [hook_function |-> h.hook_function, args |-> args,
                                  cat |-> "self.ccat"] >>]

\* execute_hook calling the last entry of the name instead of the first.
execute_hook_body_last(hs, hook_name, args) ==
    LET at == {i \in DOMAIN hs : hs[i].hook_name = hook_name}
    IN  IF at = {}
        THEN [outcome |-> "raised", value |-> "Exception: Hook not present in any plugin",
              invoked |-> <<>>]
        ELSE LET h == hs[CHOOSE i \in at : \A j \in at : j <= i]
             IN  [outcome |-> "returned", value |-> HandlerReturn(h.hook_function),
                  invoked |-> << [hook_function |-> h.hook_function, args |-> args,
                                  cat |-> "self.ccat"] >>]

\* execute_hook: the first entry of self.hooks of that name is called with
\* the arguments and cat=self.ccat and its value returned; without such an
\* entry an Exception is raised.
execute_hook_body(hs, hook_name, args) ==
    LET at == {i \in DOMAIN hs : hs[i].hook_name = hook_name}
    IN  IF at = {}
        THEN [outcome |-> "raised", value |-> "Exception: Hook not present in any plugin",
              invoked |-> <<>>]
        ELSE LET h == hs[CHOOSE i \in at : \A j \in at : i <= j]
             IN  [outcome |-> "returned", value |-> HandlerReturn(h.hook_function),
                  invoked |-> << [hook_function |-> h.hook_function, args |-> args,
                                  cat |-> "self.ccat"] >>]

(***************************************************************************)
(* Plugin settings.                                                        *)
(***************************************************************************)
SettingsKeys == {"active", "x"}

\* A settings document: "active" a boolean, "x" a plugin-defined key.
SettingsDocs ==
    {d \in [SettingsKeys -> {Missing, "False", "True", "1", "2"}] :
        /\ d["active"] \in {Missing, "False", "True"}
        /\ d["x"] \in {Missing, "1", "2"}}

NoSettingsDoc == [k \in SettingsKeys |-> Missing]

\* The states of a settings.json: absent, unparseable, an object, or another
\* JSON value; "string_active" is a JSON string that contains "active".
SettingsFiles ==
    {[kind |-> k, doc |-> NoSettingsDoc] :
        k \in {"absent", "garbage", "array", "number", "string", "string_active", "null"}}
    \cup {[kind |-> "object", doc |-> d] : d \in SettingsDocs}

\* get_plugin_settings on the file: {"active": False} when the file is
\* absent or json.load raises; the parsed object with "active" added when
\* it lacks it; a parsed value of another type is assigned to settings
\* before the membership test or the item assignment raises, and is what
\* is returned after the except clause.
get_plugin_settings(file) ==
    CASE file.kind \in {"absent", "garbage"} ->
            [kind |-> "object", doc |-> [NoSettingsDoc EXCEPT !["active"] = "False"]]
      [] file.kind = "object" ->
            [kind |-> "object",
             doc  |-> IF file.doc["active"] = Missing
                      THEN [file.doc EXCEPT !["active"] = "False"]
                      ELSE file.doc]
      [] OTHER -> [kind |-> file.kind, doc |-> NoSettingsDoc]

\* { **current_settings, **settings }.
Merge(current_settings, new_settings) ==
    [k \in SettingsKeys |->
        IF new_settings[k] # Missing THEN new_settings[k] ELSE current_settings[k]]

\* save_plugin_settings on the file with the payload: when the file opens
\* for reading and parses to an object, the merge is written and returned;
\* otherwise (no file, text that does not parse, a value that is no
\* mapping) the except clause is taken, nothing is written and the payload
\* is returned.
save_plugin_settings(file, payload) ==
    IF file.kind = "object"
    THEN [updated_settings |-> Merge(file.doc, payload),
          file |-> [kind |-> "object", doc |-> Merge(file.doc, payload)]]
    ELSE [updated_settings |-> payload, file |-> file]

(***************************************************************************)
(* The state machine.                                                      *)
(***************************************************************************)
NoSync == [added |-> <<>>, deleted |-> {}, delete_calls |-> 0]

\* The texts a record of the collection can carry, and how many records of
\* a collection carry each.
StoredTextsUniverse ==
    {"what time is it", "search the web", "roll a dice", "forgotten tool"}

TextCounts(points) ==
    [x \in StoredTextsUniverse |->
        Cardinality({r \in points : r.payload.page_content = x})]

\* No pass of embed_tools has failed just before.
NoRetry == [pending |-> FALSE, unfailed |-> TextCounts({})]

\* The record of a call: what was called with what, how it ended, the
\* handlers it invoked, the calls it made on the vector store; for
\* save_plugin_settings, the settings file as the call found it; for
\* embed_tools after a pass that failed, what the collection would hold had
\* that pass not failed.
Call(op, arg, outcome, value, invoked, sync) ==
    [op |-> op, arg |-> arg, outcome |-> outcome, value |-> value,
     invoked |-> invoked, added |-> sync.added, deleted |-> sync.deleted,
     delete_calls |-> sync.delete_calls, file_before |-> None, retry |-> NoRetry]

\* The name stored with a point that was in the collection at start.
StoredName(text) ==
    CASE text = "what time is it" -> "get_the_time"
      [] text = "search the web"  -> "search_web"
      [] text = "roll a dice"     -> "roll_dice"
      [] text = "forgotten tool"  -> "forgotten_tool"

\* The contents the collection may have when the registry is constructed:
\* empty, two points of one text, the point of a tool still there with
\* the point of a tool that is gone.
InitialTexts ==
    { <<>>,
      <<"search the web", "search the web">>,
      <<"what time is it", "forgotten tool">> }

PointsOf(texts) == {Point(i, texts[i], StoredName(texts[i])) : i \in DOMAIN texts}

\* The callers that can be inside install_plugin or uninstall_plugin at the
\* same time (MadHatter takes no lock and starts no thread of its own; the
\* callers are the threads of the web layer).
Workers == {"w1", "w2"}

\* A caller outside the two methods, its locals empty.
IdleThread ==
    [pc |-> "idle", op |-> None, arg |-> None,
     scan |-> [plugins |-> <<>>, hooks |-> <<>>, tools |-> <<>>],
     points |-> {}, doomed |-> {}, ts |-> <<>>, i |-> 0, calls |-> 0]

\* __init__: find_plugins over the built-in plugin alone; no tool has an
\* embedding until embed_tools runs.
InitRegistry ==
    LET scan == find_plugins_body({})
    IN  /\ dirs = {}
        /\ plugins = scan.plugins
        /\ hooks = scan.hooks
        /\ tools = scan.tools
        /\ embedding = scan.embedding
        /\ last = Call("__init__", None, "returned", None, <<>>, NoSync)
        /\ threads = [w \in Workers |-> IdleThread]

\* The plugin ids whose settings are read and saved.
SettingsIds == {"foo", "bar"}

\* The folders get_plugin_metadata is called on.
MetaDirs == {CoreDir, "foo"}

\* The states of a plugin.json: absent, unparseable, an object holding any
\* of the keys, or another JSON value.
DescriptorFiles ==
    {DescriptorFile(k, {}) : k \in {"absent", "garbage", "array", "number", "string", "null"}}
    \cup {DescriptorFile("object", K) : K \in SUBSET DescriptorKeys}

NoFiles ==
    /\ settings = [id \in SettingsIds |-> [kind |-> "absent", doc |-> NoSettingsDoc]]
    /\ descriptor = [dir |-> CoreDir, file |-> DescriptorFile("absent", {})]

Init ==
    /\ InitRegistry
    /\ NoFiles
    /\ \E texts \in InitialTexts : store = PointsOf(texts)

\* The registry construction with an empty collection.
InitEmpty ==
    /\ InitRegistry
    /\ NoFiles
    /\ store = {}

\* find_plugins assigning what it has collected before the failure is
\* raised, with embed_tools run on it.
RescanAndSync_publishes(op, arg, ds) ==
    \E scan \in {find_plugins_body(ds)} :
        \E sync \in {embed_tools_body(scan.tools, scan.embedding, store)} :
            /\ Cardinality(sync.store) <= MaxPoints
            /\ plugins' = scan.plugins
            /\ hooks' = scan.hooks
            /\ tools' = scan.tools
            /\ embedding' = sync.embedding
            /\ store' = sync.store
            /\ last' = IF scan.raised
                       THEN Call(op, arg, "raised", "find_plugins raised", <<>>, NoSync)
                       ELSE Call(op, arg, "returned", None, <<>>, sync)

\* find_plugins then embed_tools over the directories ds, as install_plugin
\* and uninstall_plugin run them: a scan that raises assigns nothing and
\* embed_tools is not reached.
RescanAndSync(op, arg, ds) ==
    \E scan \in {find_plugins_body(ds)} :
        IF scan.raised
        THEN /\ UNCHANGED <<plugins, hooks, tools, embedding, store>>
             /\ last' = Call(op, arg, "raised", "find_plugins raised", <<>>, NoSync)
        ELSE \E sync \in {embed_tools_body(scan.tools, scan.embedding, store)} :
                /\ Cardinality(sync.store) <= MaxPoints
                /\ plugins' = scan.plugins
                /\ hooks' = scan.hooks
                /\ tools' = scan.tools
                /\ embedding' = sync.embedding
                /\ store' = sync.store
                /\ last' = Call(op, arg, "returned", None, <<>>, sync)

\* install_plugin: the package is unpacked under cat/plugins/, then
\* find_plugins and embed_tools.
install_plugin(package_plugin) ==
    /\ Cardinality(dirs \cup {package_plugin}) <= MaxInstalled
    /\ dirs' = dirs \cup {package_plugin}
    /\ RescanAndSync("install_plugin", package_plugin, dirs \cup {package_plugin})
    /\ UNCHANGED <<settings, descriptor, threads>>

\* uninstall_plugin: shutil.rmtree of cat/plugins/<plugin_id>, which raises
\* when there is no such directory, then find_plugins and embed_tools.
uninstall_plugin(plugin_id) ==
    IF plugin_id \notin dirs
    THEN /\ UNCHANGED <<dirs, plugins, hooks, tools, embedding, store, settings, descriptor, threads>>
         /\ last' = Call("uninstall_plugin", plugin_id, "raised", "FileNotFoundError",
                         <<>>, NoSync)
    ELSE /\ dirs' = dirs \ {plugin_id}
         /\ RescanAndSync("uninstall_plugin", plugin_id, dirs \ {plugin_id})
         /\ UNCHANGED <<settings, descriptor, threads>>

\* find_plugins.
find_plugins ==
    \E scan \in {find_plugins_body(dirs)} :
        /\ UNCHANGED <<dirs, store, settings, descriptor, threads>>
        /\ IF scan.raised
           THEN /\ UNCHANGED <<plugins, hooks, tools, embedding>>
                /\ last' = Call("find_plugins", None, "raised", "find_plugins raised",
                                <<>>, NoSync)
           ELSE /\ plugins' = scan.plugins
                /\ hooks' = scan.hooks
                /\ tools' = scan.tools
                /\ embedding' = scan.embedding
                /\ last' = Call("find_plugins", None, "returned", None, <<>>, NoSync)

\* embed_tools.
embed_tools ==
    \E sync \in {embed_tools_body(tools, embedding, store)} :
        /\ Cardinality(sync.store) <= MaxPoints
        /\ embedding' = sync.embedding
        /\ store' = sync.store
        /\ last' = [Call("embed_tools", None, "returned", None, <<>>, sync)
                        EXCEPT !.retry = IF last.op = "embed_tools" /\ last.outcome = "raised"
                                         THEN last.retry ELSE NoRetry]
        /\ UNCHANGED <<dirs, plugins, hooks, tools, settings, descriptor, threads>>

\* execute_hook.
execute_hook(hook_name, args) ==
    \E res \in {execute_hook_body(hooks, hook_name, args)} :
        /\ last' = Call("execute_hook", <<hook_name, args>>, res.outcome, res.value,
                        res.invoked, NoSync)
        /\ UNCHANGED <<dirs, plugins, hooks, tools, embedding, store, settings, descriptor, threads>>

\* The plugin ids callers ask about: the directories of the model, the
\* built-in plugin and an id that was never installed.
PluginIds == UserDirs \cup {CoreDir, "ghost"}

\* The ids uninstall_plugin is called with: the directories under
\* cat/plugins/, the built-in plugin, and an id with no directory there
\* (every such id takes the same path through uninstall_plugin).
UninstallIds == dirs \cup {CoreDir, "ghost"}

\* The management operations and the two passes they are made of.
Next ==
    \/ \E p \in UserDirs : install_plugin(p)
    \/ \E id \in UninstallIds : uninstall_plugin(id)
    \/ find_plugins
    \/ embed_tools

Spec == Init /\ [][Next]_vars

\* The same, from an empty collection.
SpecEmpty == InitEmpty /\ [][Next]_vars

\* Hook execution between installs and uninstalls.
NextHooks ==
    \/ \E p \in UserDirs : install_plugin(p)
    \/ \E id \in UninstallIds : uninstall_plugin(id)
    \/ \E n \in HookNames, a \in HookArgs : execute_hook(n, a)

SpecHooks == InitEmpty /\ [][NextHooks]_vars

(***************************************************************************)
(* The settings files and the descriptor, each read and written on its    *)
(* own.                                                                    *)
(***************************************************************************)
registry == <<dirs, plugins, hooks, tools, embedding, store>>

\* A call of get_plugin_settings.
call_get_plugin_settings(plugin_id) ==
    /\ last' = Call("get_plugin_settings", plugin_id, "returned",
                    get_plugin_settings(settings[plugin_id]), <<>>, NoSync)
    /\ UNCHANGED <<registry, settings, descriptor, threads>>

\* A call of save_plugin_settings.
call_save_plugin_settings(plugin_id, payload) ==
    \E res \in {save_plugin_settings(settings[plugin_id], payload)} :
        /\ settings' = [settings EXCEPT ![plugin_id] = res.file]
        /\ last' = [Call("save_plugin_settings", <<plugin_id, payload>>, "returned",
                         res.updated_settings, <<>>, NoSync)
                        EXCEPT !.file_before = settings[plugin_id]]
        /\ UNCHANGED <<registry, descriptor, threads>>

InitSettings ==
    /\ InitRegistry
    /\ store = {}
    /\ settings \in [SettingsIds -> SettingsFiles]
    /\ descriptor = [dir |-> CoreDir, file |-> DescriptorFile("absent", {})]

NextSettings ==
    \/ \E id \in SettingsIds : call_get_plugin_settings(id)
    \/ \E id \in SettingsIds, payload \in SettingsDocs : call_save_plugin_settings(id, payload)

SpecSettings == InitSettings /\ [][NextSettings]_vars

\* A call of get_plugin_metadata on the folder and its plugin.json.
call_get_plugin_metadata ==
    \E res \in {get_plugin_metadata(FolderOf(descriptor.dir), descriptor.file)} :
        /\ last' = Call("get_plugin_metadata", descriptor.dir,
                        IF res.raised THEN "raised" ELSE "returned",
                        IF res.raised THEN "AttributeError" ELSE res.meta, <<>>, NoSync)
        /\ UNCHANGED <<registry, settings, descriptor, threads>>

InitMeta ==
    /\ InitRegistry
    /\ store = {}
    /\ settings = [id \in SettingsIds |-> [kind |-> "absent", doc |-> NoSettingsDoc]]
    /\ descriptor \in [dir : MetaDirs, file : DescriptorFiles]

NextMeta == call_get_plugin_metadata

SpecMeta == InitMeta /\ [][NextMeta]_vars

(***************************************************************************)
(* Passes of embed_tools that fail at a call on the vector store.          *)
(***************************************************************************)
\* embed_tools raising at a call on the vector store.
embed_tools_raises(call, k) ==
    \E pass \in {embed_tools_raising(tools, embedding, store, call, k)} :
        /\ pass.raised
        /\ Cardinality(pass.store) <= MaxPoints
        /\ embedding' = pass.embedding
        /\ store' = pass.store
        /\ last' = [Call("embed_tools", call, "raised", "Exception", <<>>, NoSync)
                        EXCEPT !.retry =
                            IF last.op = "embed_tools" /\ last.outcome = "raised"
                            THEN last.retry
                            ELSE [pending  |-> TRUE,
                                  unfailed |-> TextCounts(
                                      embed_tools_body(tools, embedding, store).store)]]
        /\ UNCHANGED <<dirs, plugins, hooks, tools, settings, descriptor, threads>>

\* The add_texts calls of a pass among which the failing one is taken.
MaxAdds == 2

NextRaises ==
    \/ \E p \in UserDirs : install_plugin(p)
    \/ \E id \in UninstallIds : uninstall_plugin(id)
    \/ find_plugins
    \/ embed_tools
    \/ \E call \in StoreCalls, k \in 1..MaxAdds : embed_tools_raises(call, k)

SpecRaises == Init /\ [][NextRaises]_vars

(***************************************************************************)
(* install_plugin and uninstall_plugin statement by statement, for callers *)
(* that run them at the same time as each other and as readers of the      *)
(* registry.  Each step is one statement (or one loop iteration) of the    *)
(* method; the scan of find_plugins, from the glob to the last             *)
(* augment_tool, is taken as one step.                                     *)
(***************************************************************************)
\* The packages the concurrent callers install: two plugins whose tools
\* have descriptions of their own.
ConcPackages == {"foo", "baz"}

\* The calls each caller makes.
MaxCalls == 1

\* The caller w moves on with the locals rec.
Goto(w, rec) == threads' = [threads EXCEPT ![w] = rec]

\* The caller w leaves the method: its locals are dropped.
Leave(w) == Goto(w, [IdleThread EXCEPT !.calls = threads[w].calls + 1])

\* The ids the store has given out and some caller still holds; add_texts
\* gives an id that is none of them (the store never gives an id twice).
HeldIds ==
    {r.id : r \in store}
        \cup UNION {{r.id : r \in threads[w].points} : w \in Workers}
        \cup UNION {threads[w].doomed : w \in Workers}

NewId ==
    CHOOSE i \in 1..(Cardinality(HeldIds) + 1) :
        /\ i \notin HeldIds
        /\ \A j \in 1..(i - 1) : j \in HeldIds

\* install_plugin up to the call of find_plugins: the package is unpacked.
begin_install(w, package_plugin) ==
    /\ threads[w].pc = "idle"
    /\ threads[w].calls < MaxCalls
    /\ Cardinality(dirs \cup {package_plugin}) <= MaxInstalled
    /\ dirs' = dirs \cup {package_plugin}
    /\ Goto(w, [threads[w] EXCEPT !.pc = "find_plugins", !.op = "install_plugin",
                                  !.arg = package_plugin])
    /\ UNCHANGED <<plugins, hooks, tools, embedding, store, settings, descriptor, last>>

\* uninstall_plugin up to the call of find_plugins: shutil.rmtree.
begin_uninstall(w, plugin_id) ==
    /\ threads[w].pc = "idle"
    /\ threads[w].calls < MaxCalls
    /\ IF plugin_id \notin dirs
       THEN /\ Leave(w)
            /\ last' = Call("uninstall_plugin", plugin_id, "raised", "FileNotFoundError",
                            <<>>, NoSync)
            /\ UNCHANGED dirs
       ELSE /\ dirs' = dirs \ {plugin_id}
            /\ Goto(w, [threads[w] EXCEPT !.pc = "find_plugins", !.op = "uninstall_plugin",
                                          !.arg = plugin_id])
            /\ UNCHANGED last
    /\ UNCHANGED <<plugins, hooks, tools, embedding, store, settings, descriptor>>

\* find_plugins up to the assignment: the directories are scanned and every
\* tool found is augmented, the tool objects of the live registry among
\* them (a module already imported is not loaded again).
scan_folders(w) ==
    /\ threads[w].pc = "find_plugins"
    /\ \E scan \in {find_plugins_body(dirs)} :
          IF scan.raised
          THEN /\ Leave(w)
               /\ last' = Call(threads[w].op, threads[w].arg, "raised",
                               "find_plugins raised", <<>>, NoSync)
               /\ UNCHANGED embedding
          ELSE /\ Goto(w, [threads[w] EXCEPT
                              !.pc = "assign_hooks",
                              !.scan = [plugins |-> scan.plugins, hooks |-> scan.hooks,
                                        tools |-> scan.tools]])
               /\ embedding' = [t \in DOMAIN embedding \cup DOMAIN scan.embedding |->
                                   IF t \in DOMAIN scan.embedding THEN scan.embedding[t]
                                   ELSE embedding[t]]
               /\ UNCHANGED last
    /\ UNCHANGED <<dirs, plugins, hooks, tools, store, settings, descriptor>>

\* self.hooks, self.tools, self.plugins = ...: three attribute stores, in
\* this order.
assign_hooks(w) ==
    /\ threads[w].pc = "assign_hooks"
    /\ hooks' = threads[w].scan.hooks
    /\ Goto(w, [threads[w] EXCEPT !.pc = "assign_tools"])
    /\ UNCHANGED <<dirs, plugins, tools, embedding, store, settings, descriptor, last>>

assign_tools(w) ==
    /\ threads[w].pc = "assign_tools"
    /\ tools' = threads[w].scan.tools
    /\ Goto(w, [threads[w] EXCEPT !.pc = "assign_plugins"])
    /\ UNCHANGED <<dirs, plugins, hooks, embedding, store, settings, descriptor, last>>

assign_plugins(w) ==
    /\ threads[w].pc = "assign_plugins"
    /\ plugins' = threads[w].scan.plugins
    /\ Goto(w, [threads[w] EXCEPT !.pc = "get_all_points"])
    /\ UNCHANGED <<dirs, hooks, tools, embedding, store, settings, descriptor, last>>

\* embed_tools: all_tools_points = ...get_all_points().
get_all_points(w) ==
    /\ threads[w].pc = "get_all_points"
    /\ Goto(w, [threads[w] EXCEPT !.pc = "records", !.points = store])
    /\ UNCHANGED <<dirs, plugins, hooks, tools, embedding, store, settings, descriptor, last>>

\* embed_tools: the index over self.tools and the loop over the records
\* fetched.
loop_over_records(w) ==
    /\ threads[w].pc = "records"
    /\ embedding' = AssignStored(tools, embedding, threads[w].points)
    /\ \E doomed \in {points_to_be_deleted(tools, threads[w].points)} :
          Goto(w, [threads[w] EXCEPT !.pc = IF doomed = {} THEN "loop" ELSE "delete",
                                     !.doomed = doomed, !.ts = tools, !.i = 1])
    /\ UNCHANGED <<dirs, plugins, hooks, tools, store, settings, descriptor, last>>

\* embed_tools: vector_db.delete of the ids collected.
delete_points(w) ==
    /\ threads[w].pc = "delete"
    /\ store' = {r \in store : r.id \notin threads[w].doomed}
    /\ Goto(w, [threads[w] EXCEPT !.pc = "loop"])
    /\ UNCHANGED <<dirs, plugins, hooks, tools, embedding, settings, descriptor, last>>

\* embed_tools: one turn of the loop over the tools, up to the test of
\* tool.embedding; past the last tool the method returns.
loop_over_tools(w) ==
    /\ threads[w].pc = "loop"
    /\ IF threads[w].i > Len(threads[w].ts)
       THEN /\ Leave(w)
            /\ last' = Call(threads[w].op, threads[w].arg, "returned", None, <<>>, NoSync)
       ELSE /\ Goto(w, IF embedding[threads[w].ts[threads[w].i]] = None
                       THEN [threads[w] EXCEPT !.pc = "add_texts"]
                       ELSE [threads[w] EXCEPT !.i = @ + 1])
            /\ UNCHANGED last
    /\ UNCHANGED <<dirs, plugins, hooks, tools, embedding, store, settings, descriptor>>

\* embed_tools: add_texts, retrieve, and the assignment of the vector.
add_texts(w) ==
    /\ threads[w].pc = "add_texts"
    /\ Cardinality(store) < MaxPoints
    /\ LET tool == threads[w].ts[threads[w].i]
       IN  /\ store' = store \cup {Point(NewId, Description(tool), tool)}
           /\ embedding' = [embedding EXCEPT ![tool] = Vector(Description(tool))]
    /\ Goto(w, [threads[w] EXCEPT !.pc = "loop", !.i = @ + 1])
    /\ UNCHANGED <<dirs, plugins, hooks, tools, settings, descriptor, last>>

\* A reader while some caller is inside install_plugin or uninstall_plugin:
\* what it finds in self.plugins, self.hooks and self.tools, and the tools
\* among them that have an embedding.
read_registry ==
    /\ \E w \in Workers : threads[w].pc # "idle"
    /\ last' = Call("read_registry", None, "returned",
                    [plugins |-> plugins, hooks |-> hooks, tools |-> tools,
                     embedded |-> {t \in Range(tools) : embedding[t] # None}],
                    <<>>, NoSync)
    /\ UNCHANGED <<dirs, plugins, hooks, tools, embedding, store, settings, descriptor,
                   threads>>

\* The registry constructed and its tools embedded, over an empty
\* collection: the state the callers start from.
InitConc ==
    LET scan == find_plugins_body({})
        sync == embed_tools_body(scan.tools, scan.embedding, {})
    IN  /\ dirs = {}
        /\ plugins = scan.plugins
        /\ hooks = scan.hooks
        /\ tools = scan.tools
        /\ embedding = sync.embedding
        /\ store = sync.store
        /\ last = Call("embed_tools", None, "returned", None, <<>>, sync)
        /\ threads = [w \in Workers |-> IdleThread]
        /\ NoFiles

NextConc ==
    \/ \E w \in Workers, p \in ConcPackages : begin_install(w, p)
    \/ \E w \in Workers, id \in dirs \cup {"ghost"} : begin_uninstall(w, id)
    \/ \E w \in Workers : scan_folders(w)
    \/ \E w \in Workers : assign_hooks(w)
    \/ \E w \in Workers : assign_tools(w)
    \/ \E w \in Workers : assign_plugins(w)
    \/ \E w \in Workers : get_all_points(w)
    \/ \E w \in Workers : loop_over_records(w)
    \/ \E w \in Workers : delete_points(w)
    \/ \E w \in Workers : loop_over_tools(w)
    \/ \E w \in Workers : add_texts(w)
    \/ read_registry

SpecConc == InitConc /\ [][NextConc]_vars

(***************************************************************************)
(* The claims.                                                             *)
(***************************************************************************)
\* The operations that end with a completed embed_tools pass, and those
\* that end with a completed scan.
SyncOps == {"install_plugin", "uninstall_plugin", "embed_tools"}
ScanOps == {"__init__", "find_plugins", "install_plugin", "uninstall_plugin"}

StoredTexts(points) == {r.payload.page_content : r \in points}

\* C1 (as claimed; checked under SpecEmpty): after install_plugin,
\* uninstall_plugin or a rescan, each followed by embed_tools, starting from
\* an empty collection, the collection holds as many points as self.tools
\* holds tools and every tool of self.tools has an embedding.
C1_Bijection ==
    (last.op \in SyncOps /\ last.outcome = "returned")
        => /\ Cardinality(store) = Len(tools)
           /\ \A i \in DOMAIN tools : embedding[tools[i]] # None

\* C2 (as claimed): when an embed_tools pass has completed and a second one
\* runs with the same tool set, directly or after a rescan that leaves
\* self.tools as it was, the second pass calls neither add_texts nor delete
\* and leaves the collection as it is.
C2_Idempotent ==
    [][ ( /\ last.op \in SyncOps /\ last.outcome = "returned"
          /\ last'.op \in SyncOps /\ last'.outcome = "returned"
          /\ tools' = tools )
        => ( /\ last'.added = <<>>
             /\ last'.delete_calls = 0
             /\ store' = store ) ]_vars

\* The tool objects the modules of a plugin directory define.
OwnedTools(p) == Range(find_plugin(p).plugin_tools)

\* C3: when uninstall_plugin(p) completes, every tool T of p whose
\* description had a stored point, and whose description no other tool of
\* the new self.tools has, is out of self.tools and no stored point carries
\* its description.
C3_UninstallPurges ==
    [][ (last'.op = "uninstall_plugin" /\ last'.outcome = "returned")
        => \A T \in OwnedTools(last'.arg) :
              ( /\ Description(T) \in StoredTexts(store)
                /\ \A i \in DOMAIN tools' :
                      tools'[i] # T => Description(tools'[i]) # Description(T) )
              => /\ T \notin Range(tools')
                 /\ Description(T) \notin StoredTexts(store') ]_vars

\* C3's case: an uninstall that completed and deleted the point of a tool
\* of the uninstalled plugin.
C3_Witness ==
    /\ last.op = "uninstall_plugin"
    /\ last.outcome = "returned"
    /\ \E T \in OwnedTools(last.arg) :
          /\ Description(T) \in last.deleted
          /\ T \notin Range(tools)
          /\ Description(T) \notin StoredTexts(store)

HasEntry(hs, hook_name) == \E i \in DOMAIN hs : hs[i].hook_name = hook_name

HandlersOf(hs) == {hs[i].hook_function : i \in DOMAIN hs}

\* C4: execute_hook on a name without an entry in self.hooks ends in an
\* error and not in a returned value, differs from every outcome in which a
\* handler returned its value (None included), and no handler is invoked.
C4_MissingHookRaises ==
    (last.op = "execute_hook" /\ ~HasEntry(hooks, last.arg[1]))
        => /\ last.outcome = "raised"
           /\ last.invoked = <<>>
           /\ \A f \in HandlersOf(hooks) \cup {"core.before_cat_sends_message"} :
                 <<last.outcome, last.value>> # <<"returned", HandlerReturn(f)>>

\* C4's case: a call of a hook name no plugin declares, and one of a name
\* whose only plugin is not installed.
C4_Witness ==
    /\ last.op = "execute_hook"
    /\ last.arg[1] = "bar_custom_hook"
    /\ ~HasEntry(hooks, "bar_custom_hook")
    /\ last.outcome = "raised"

\* C5: execute_hook on a name with entries in self.hooks invokes one
\* handler, the first entry of that name, which no entry of the name
\* exceeds in priority, with the caller's arguments and cat=self.ccat, and
\* returns what it returns.
C5_FirstHandlerOnly ==
    (last.op = "execute_hook" /\ HasEntry(hooks, last.arg[1]))
        => LET at    == {i \in DOMAIN hooks : hooks[i].hook_name = last.arg[1]}
               first == hooks[CHOOSE i \in at : \A j \in at : i <= j]
           IN  /\ last.invoked = << [hook_function |-> first.hook_function,
                                     args |-> last.arg[2], cat |-> "self.ccat"] >>
               /\ last.outcome = "returned"
               /\ last.value = HandlerReturn(first.hook_function)
               /\ \A j \in at : hooks[j].priority <= first.priority

\* C5's case: a name three plugins declare a handler for, run with an
\* argument, the handler of the highest priority being the one invoked.
C5_Witness ==
    /\ last.op = "execute_hook"
    /\ last.arg = <<"agent_prompt_prefix", <<"message">>>>
    /\ Cardinality({i \in DOMAIN hooks : hooks[i].hook_name = "agent_prompt_prefix"}) = 3
    /\ last.invoked = << [hook_function |-> "bar.agent_prompt_prefix",
                          args |-> <<"message">>, cat |-> "self.ccat"] >>
    /\ last.value = "bar prefix"

\* C6 (as claimed): uninstall_plugin(plugin_id) fails and leaves the
\* directories, the registry and the collection as they are when
\* plugin_exists(plugin_id) is false; otherwise it removes the directory of
\* the plugin, rescans and re-syncs.
C6_UninstallNotFound ==
    [][ last'.op = "uninstall_plugin"
        => IF ~plugin_exists(last'.arg)
           THEN /\ last'.outcome = "raised"
                /\ UNCHANGED <<dirs, plugins, hooks, tools, embedding, store>>
           ELSE /\ last'.arg \in dirs
                /\ dirs' = dirs \ {last'.arg}
                /\ last'.outcome = "returned" ]_vars

\* The directories find_plugins scans: the built-in one and those under
\* cat/plugins/.
ScannedDirs == {CoreDir} \cup dirs

\* C7 (as claimed): after a scan, plugin_exists(id) is true exactly for
\* the basenames of the scanned directories, with or without source files.
C7_ExistsIffScanned ==
    (last.op \in ScanOps /\ last.outcome = "returned")
        => \A id \in PluginIds :
              plugin_exists(id) <=> \E d \in ScannedDirs : Basename(FolderOf(d)) = id

\* C7 (amended): after a scan that returned, plugin_exists(id) is true
\* exactly for the basenames of the scanned directories in which the scan
\* found at least one source file.
C7_ExistsIffScannedWithSources ==
    (last.op \in ScanOps /\ last.outcome = "returned")
        => \A id \in PluginIds :
              plugin_exists(id) <=> \E d \in ScannedDirs : /\ Basename(FolderOf(d)) = id
                                                           /\ Len(PyFiles(d)) > 0

\* C7's case: a completed scan over a directory without source files, a
\* directory whose plugin.json names another id, and the built-in one.
C7_Witness ==
    /\ last.op \in ScanOps
    /\ last.outcome = "returned"
    /\ dirs = {"empty", "bar"}
    /\ ~plugin_exists("empty")
    /\ plugin_exists("bar")
    /\ plugin_exists(CoreDir)

\* C8 (as claimed): save_plugin_settings(id, P) over a stored object D, or
\* over no document (then D is empty), returns the shallow merge of P over
\* D, writes exactly that, and get_plugin_settings(id) then returns it.
C8_SaveMerges ==
    (last.op = "save_plugin_settings" /\ last.file_before.kind \in {"object", "absent"})
        => LET id == last.arg[1]
               P  == last.arg[2]
               D  == last.file_before.doc
           IN  /\ \A k \in SettingsKeys :
                     last.value[k] = IF P[k] # Missing THEN P[k] ELSE D[k]
               /\ settings[id] = [kind |-> "object", doc |-> last.value]
               /\ get_plugin_settings(settings[id]) = [kind |-> "object", doc |-> last.value]

\* C9 (as claimed): get_plugin_settings returns, for every state of the
\* file, a document that holds "active", and {"active": False} for a file
\* that is absent or does not parse.
C9_GetAlwaysDocument ==
    last.op = "get_plugin_settings"
        => /\ last.outcome = "returned"
           /\ last.value.kind = "object"
           /\ last.value.doc["active"] # Missing
           /\ settings[last.arg].kind \in {"absent", "garbage"}
                 => last.value.doc = [NoSettingsDoc EXCEPT !["active"] = "False"]

\* C10 (as claimed): get_plugin_metadata returns, for every state of
\* plugin.json, a record with every field, the fields the descriptor lacks
\* at their defaults, and id the basename of the folder.
C10_MetadataAlwaysReturned ==
    last.op = "get_plugin_metadata"
        => /\ last.outcome = "returned"
           /\ last.value["id"] = descriptor.dir
           /\ \A k \in MetaFields :
                 last.value[k] =
                    IF descriptor.file.kind = "object" /\ descriptor.file.doc[k] # Missing
                    THEN descriptor.file.doc[k]
                    ELSE MetaDefault(k, descriptor.dir)

\* The three collections are those of one scan: of some set of directories.
SameScan(v) ==
    \E ds \in SUBSET ConcPackages :
        LET scan == find_plugins_body(ds)
        IN  /\ scan.plugins = v.plugins
            /\ scan.hooks = v.hooks
            /\ scan.tools = v.tools

\* C11 (as claimed; checked under SpecConc): a reader running while a
\* caller is inside install_plugin or uninstall_plugin finds plugins, hooks
\* and tools that are those of one scan, and every tool it finds has its
\* embedding.
C11_ReaderSeesOneScan ==
    last.op = "read_registry"
        => /\ SameScan(last.value)
           /\ last.value.embedded = Range(last.value.tools)

\* The positions of a caller that has scanned and has not yet returned from
\* embed_tools.
InPass == {"assign_hooks", "assign_tools", "assign_plugins", "get_all_points",
           "records", "delete", "loop", "add_texts"}

\* Both callers have made their call and are out of it.
BothCompleted == \A w \in Workers : threads[w].pc = "idle" /\ threads[w].calls > 0

RecordsOf(text) == {r \in store : r.payload.page_content = text}

\* C12 (as claimed; checked under SpecConc): of two install_plugin /
\* uninstall_plugin calls made at the same time, one completes its rescan
\* and sync before the other starts its own, and when both have completed
\* the store holds exactly one record per description of a tool of
\* self.tools.
C12_PassesDoNotInterleave ==
    /\ Cardinality({w \in Workers : threads[w].pc \in InPass}) <= 1
    /\ BothCompleted
          => \A i \in DOMAIN tools : Cardinality(RecordsOf(Description(tools[i]))) = 1

\* C13 (as claimed): whatever the collection held, when a pass of
\* embed_tools has completed the collection holds exactly one record per
\* description of a tool of self.tools, and no record whose description no
\* tool of self.tools has.
C13_OneRecordPerDescription ==
    (last.op \in SyncOps /\ last.outcome = "returned")
        => /\ \A i \in DOMAIN tools : Cardinality(RecordsOf(Description(tools[i]))) = 1
           /\ \A r \in store : IndexHas(tools, r.payload.page_content)

\* C14 (as claimed; checked under SpecRaises): when a pass of embed_tools
\* has failed at a call on the vector store and the pass is run again to
\* completion, every tool has an embedding, the collection holds exactly
\* one record per description of a tool, and it holds what a pass that did
\* not fail would have left.
C14_RetryAfterFailure ==
    (last.op = "embed_tools" /\ last.outcome = "returned" /\ last.retry.pending)
        => /\ \A i \in DOMAIN tools : embedding[tools[i]] # None
           /\ \A i \in DOMAIN tools : Cardinality(RecordsOf(Description(tools[i]))) = 1
           /\ TextCounts(store) = last.retry.unfailed

\* The hook handlers the modules of a plugin directory declare.
OwnedHandlers(p) ==
    {h.hook_function : h \in Range(RegisteredHooks(find_plugin(p).imported))}

ScanRan ==
    \/ last.op \in {"find_plugins", "install_plugin"}
    \/ last.op = "uninstall_plugin" /\ last.value # "FileNotFoundError"

\* The directories one of whose modules raises when it is imported.
FailsToLoad(d) == \E i \in DOMAIN PyFiles(d) : ImportFails(PyFiles(d)[i])

\* C16 (as claimed): a scan over a directory whose module fails to load
\* completes; that directory contributes nothing, and every other scanned
\* directory with source files contributes its plugin record, its hooks and
\* its tools.
C16_FailedLoadIsSkipped ==
    ScanRan
        => /\ last.outcome = "returned"
           /\ \A d \in ScannedDirs :
                 IF FailsToLoad(d)
                 THEN ~plugin_exists(d)
                 ELSE Len(PyFiles(d)) > 0
                        => /\ plugin_exists(d)
                           /\ OwnedTools(d) \subseteq Range(tools)
                           /\ OwnedHandlers(d) \subseteq HandlersOf(hooks)

\* The calls of augment_tool a scan of the directories ds makes: one for
\* every element of all_tools, in order.
AugmentCalls(ds) == find_plugins_body(ds).tools

Occurrences(seq, x) == Cardinality({i \in DOMAIN seq : seq[i] = x})

\* C17 (as claimed): after a scan, every tool is in self.tools once and
\* augment_tool was called on it once, also when two source files export
\* the same tool object.
C17_AugmentedOnce ==
    (ScanRan /\ last.outcome = "returned")
        => \A t \in Range(tools) :
              /\ Occurrences(tools, t) = 1
              /\ Occurrences(AugmentCalls(dirs), t) = 1

\* C18: when the rescan inside install_plugin or uninstall_plugin raises,
\* self.plugins, self.hooks and self.tools are what they were, embed_tools
\* is not run (no call on the vector store) and the collection is what it
\* was.
C18_FailedRescanLeavesRegistry ==
    [][ ( /\ last'.op \in {"install_plugin", "uninstall_plugin"}
          /\ last'.outcome = "raised"
          /\ last'.value = "find_plugins raised" )
        => /\ UNCHANGED <<plugins, hooks, tools, store>>
           /\ last'.added = <<>>
           /\ last'.delete_calls = 0 ]_vars

\* C18's case: foo installed, then a directory whose module fails to load;
\* uninstall_plugin(foo) removes foo's directory, its rescan raises, and the
\* registry and the collection still hold foo's plugin, tool and record.
C18_Witness ==
    /\ last.op = "uninstall_plugin"
    /\ last.outcome = "raised"
    /\ last.value = "find_plugins raised"
    /\ last.arg = "foo"
    /\ dirs = {"broken"}
    /\ plugin_exists("foo")
    /\ "search_web" \in Range(tools)
    /\ RecordsOf("search the web") # {}

====
